---- MODULE Spec2Model ----
(***************************************************************************)
(* Model of src/module/metadata.js (class Metadata): the get-or-create    *)
(* write path (getMetadataId, fetchNew, getMetaId, attachMeta) and the     *)
(* read path (getMetadataById, getMetaByMetadataId, getMetaInfoByMetaId)   *)
(* over a relational store with transactions.                              *)
(*                                                                         *)
(* Store semantics: a row inserted with .transacting(trx) is held in that  *)
(* transaction until the transaction handler's promise settles (commit on  *)
(* fulfilment, rollback on rejection); a query issued on db(...) without   *)
(* .transacting reads committed rows only.  Every await of the write path  *)
(* is a step boundary; what runs between two awaits is one atomic step.    *)
(* A read request is one step.  The cache keeps what its producer         *)
(* returned, a row or nothing found.  Rows keep the columns the properties *)
(* read (title, posterFileURL, releaseDate and updateTime are left out);   *)
(* the store may reject an insert, its reads always answer.                *)
(***************************************************************************)
EXTENDS Integers, Sequences, FiniteSets, TLC

(* ---------------------------------------------------------------- bounds *)

\* Number of getMetadataId invocations explored in one behaviour.
MaxCalls == 3

\* Number of store errors (a rejected insert) injected in one behaviour.
MaxStoreErrors == 1

\* Number of getMetadataId invocations explored when two callers run at once.
MaxRacingCalls == 2

\* Number of read requests (getMetadataById, getMetadataListByMetaId) explored
\* in one behaviour.
MaxReads == 2

(* ------------------------------------------------------ program constants *)

\* p-retry option `retries: 5`: one first attempt plus five retries.
retries == 5

\* The callers that may have a getMetadataId call in flight at the same time.
Callers == {"p", "q"}

\* JAVIDs, each already split at '-' into <<companyName, companyId>>.
Keys == {<<"ABC", "001">>, <<"XYZ", "002">>}

\* Value of a photoURL column that was never set (`if (photoURL)` was false).
NoPhoto == [pre |-> 0, path |-> ""]

\* file.getProxyPrefix() + url: a URL is a path and the number of prefixes
\* prepended to it.
Proxify(url) == [pre |-> url.pre + 1, path |-> url.path]

(* ------------------------------------------------------------- documents *)

\* An <a> of the "info" block: the marker found in its href, and its text.
Link(mark, text) == [mark |-> mark, text |-> text]

\* An attribute value of an <img>: the marker found in it, and the string.
Attr(mark, val) == [mark |-> mark, val |-> val]

\* The documents the source site may answer with.
DocNoInfo    == [info |-> FALSE, movie |-> FALSE, a |-> <<>>, imgs |-> <<>>]
DocEmpty     == [info |-> TRUE, movie |-> TRUE, a |-> <<>>, imgs |-> <<>>]
DocTagsOnly  == [info |-> TRUE, movie |-> TRUE,
                 a |-> <<Link("genre", "Drama")>>,
                 imgs |-> <<<<Attr("cover", "/cover/x.jpg"), Attr("", "T")>>>>]
DocFull      == [info |-> TRUE, movie |-> TRUE,
                 a |-> <<Link("studio", "St"), Link("series", "S1"),
                         Link("genre", "Drama")>>,
                 imgs |-> <<<<Attr("cover", "/cover/x.jpg"), Attr("", "T")>>,
                            <<Attr("actress", "/actress/j.jpg"), Attr("", "Jane")>>>>]
DocNoSeries  == [info |-> TRUE, movie |-> TRUE,
                 a |-> <<Link("genre", "Drama")>>,
                 imgs |-> <<<<Attr("actress", "/actress/j.jpg"), Attr("", "Jane")>>>>]

DocDupTag    == [info |-> TRUE, movie |-> TRUE,
                 a |-> <<Link("genre", "Drama"), Link("genre", "Drama")>>,
                 imgs |-> <<<<Attr("actress", "/actress/j.jpg"), Attr("", "Jane")>>>>]
DocNoMovie   == [info |-> TRUE, movie |-> FALSE,
                 a |-> <<Link("genre", "Drama")>>, imgs |-> <<>>]

DocStarsOnly == [info |-> TRUE, movie |-> TRUE, a |-> <<>>,
                 imgs |-> <<<<Attr("actress", "/actress/j.jpg"), Attr("", "Jane")>>>>]
DocTwoCovers == [info |-> TRUE, movie |-> TRUE, a |-> <<>>,
                 imgs |-> <<<<Attr("cover", "/cover/x.jpg"), Attr("", "T")>>,
                            <<Attr("digital/video", "/digital/video/y.jpg"),
                              Attr("", "U")>>>>]
DocOneAttr   == [info |-> TRUE, movie |-> TRUE,
                 a |-> <<Link("genre", "Drama")>>,
                 imgs |-> <<<<Attr("actress", "/actress/j.jpg")>>>>]

Docs == {DocNoInfo, DocEmpty, DocTagsOnly, DocFull, DocNoSeries, DocDupTag,
         DocNoMovie, DocStarsOnly, DocTwoCovers, DocOneAttr}

\* The documents answered while two callers race: at most one star and one
\* tag each, no name twice.
RaceDocs == {DocNoInfo, DocEmpty, DocTagsOnly, DocNoSeries, DocNoMovie}

\* The `data` object of fetchNew before any rule has matched.
EmptyData == [title |-> "", cover |-> "", studio |-> "", series |-> "",
              tags |-> <<>>, stars |-> <<>>]

\* Loop over the links of the info block (document order).
RECURSIVE ExtractLinks(_, _, _)
ExtractLinks(a, i, data) ==
    IF i > Len(a) THEN data
    ELSE LET v == a[i].mark
             d == IF data.studio = "" /\ v = "studio"
                     THEN [data EXCEPT !.studio = a[i].text]
                  ELSE IF data.series = "" /\ v = "series"
                     THEN [data EXCEPT !.series = a[i].text]
                  ELSE IF v = "genre"
                     THEN [data EXCEPT !.tags = Append(@, a[i].text)]
                  ELSE data
         IN ExtractLinks(a, i + 1, d)

\* Loop over the images of the movie block: a cast photo pushes a star, a
\* cover image assigns title and cover.
RECURSIVE ExtractImgs(_, _, _)
ExtractImgs(imgs, i, data) ==
    IF i > Len(imgs) THEN data
    ELSE LET attrs == imgs[i]
             d == IF Len(attrs) >= 2 /\ attrs[1].mark \in {"actress", "nowprinting"}
                     THEN [data EXCEPT !.stars =
                              Append(@, [name |-> attrs[2].val, img |-> attrs[1].val])]
                  ELSE IF Len(attrs) >= 2 /\ attrs[1].mark \in {"cover", "digital/video"}
                     THEN [data EXCEPT !.title = attrs[2].val, !.cover = attrs[1].val]
                  ELSE data
         IN ExtractImgs(imgs, i + 1, d)

\* Whether the image loop dereferences attrs[1] of an image that has none.
NoSecondAttr(imgs) ==
    \E i \in 1..Len(imgs) :
        /\ Len(imgs[i]) = 1
        /\ imgs[i][1].mark \in {"actress", "nowprinting", "cover", "digital/video"}

\* The part of fetchNew after the response text is in: parse and extract.
\* kind "undefined" is the bare `return` of a document without info block;
\* kind "TypeError" is the exception of reading a property of undefined
\* (no element of class "movie", or an image without a second attribute).
Extract(doc) ==
    IF ~doc.info THEN [kind |-> "undefined", data |-> EmptyData]
    ELSE IF ~doc.movie \/ NoSecondAttr(doc.imgs)
        THEN [kind |-> "TypeError", data |-> EmptyData]
    ELSE [kind |-> "data",
          data |-> ExtractImgs(doc.imgs, 1, ExtractLinks(doc.a, 1, EmptyData))]

\* Line 124 without its two length tests.
Invalid_UndefinedOnly(JAVinfo) ==
    JAVinfo.kind = "undefined"

\* Line 124 with its length tests joined by && instead of ||.
Invalid_BothEmpty(JAVinfo) ==
    \/ JAVinfo.kind = "undefined"
    \/ Len(JAVinfo.data.tags) = 0 /\ Len(JAVinfo.data.stars) = 0

\* The test of line 124: the info is rejected.
Invalid(JAVinfo) ==
    \/ JAVinfo.kind = "undefined"
    \/ Len(JAVinfo.data.tags) = 0
    \/ Len(JAVinfo.data.stars) = 0

(* ----------------------------------------------------------------- state *)

VARIABLES
    metadatas,   \* committed rows of table metadatas: [id, key]
    metas,       \* committed rows of tables tags, stars, series: [id, name, photoURL]
    mappings,    \* committed rows of the *_mapping tables: [id, metadataId, metaId]
    nextId,      \* auto-increment counter of every table
    ignored,     \* keys passed to ignore.addIgnore
    cache,       \* entries of the memoizing cache: [type, id, row]
    pc,          \* per caller: where its getMetadataId call stands
    JAVID,       \* per caller: the argument of the call
    attempt,     \* per caller: failed attempts counted by pRetry
    JAVinfo,     \* per caller: what fetchNew returned
    dom,         \* per caller: the document fetchNew parsed
    metadataId,  \* per caller: id of the base row it inserted (0: none)
    trx,         \* per caller: rows written in its transaction, not committed
    promises,    \* per caller: the attachMeta calls it launched
    outcome,     \* per caller: state and value of the promise getMetadataId returned
    read,        \* result of the last getMetadataById
    list,        \* result of the last getMetadataListByMetaId
    ncalls, nerrs, nreads

vars == <<metadatas, metas, mappings, nextId, ignored, cache, pc, JAVID, attempt,
          JAVinfo, dom, metadataId, trx, promises, outcome, read, list, ncalls,
          nerrs, nreads>>

store   == <<metadatas, metas, mappings, nextId>>
counts  == <<ncalls, nerrs, nreads>>

MetaTypes == {"tags", "stars", "series"}

\* _getTypeMapping: entity table of an attach type.  The column (tagId, starId,
\* seriesId) is field metaId of a mapping row.
getTypeMapping(type) ==
    CASE type = "tag"    -> [log |-> "Tag", column |-> "tagId", type |-> "tags"]
      [] type = "star"   -> [log |-> "Star", column |-> "starId", type |-> "stars"]
      [] type = "series" -> [log |-> "Series", column |-> "seriesId", type |-> "series"]

Pending == [state |-> "pending", value |-> 0]
Resolved(v) == [state |-> "resolved", value |-> v]

NoInfo == [kind |-> "none", data |-> EmptyData]
\* No response parsed yet.
NoDom == [info |-> FALSE, movie |-> FALSE, a |-> <<>>, imgs |-> <<>>]
NoTrx == [metadatas |-> {}, metas |-> [t \in MetaTypes |-> {}]]
NoRead == [caller |-> "", id |-> 0, found |-> FALSE,
           tags |-> <<>>, stars |-> <<>>, series |-> <<>>]

\* No list was asked for yet.
NoList == [type |-> "", metaId |-> 0, page |-> 0, size |-> 0,
           total |-> 0, data |-> <<>>, metaInfo |-> [id |-> 0]]

Init ==
    /\ metadatas = {}
    /\ metas = [t \in MetaTypes |-> {}]
    /\ mappings = [t \in MetaTypes |-> {}]
    /\ nextId = [t \in {"metadatas", "tags", "stars", "series",
                        "tags_mapping", "stars_mapping", "series_mapping"} |-> 1]
    /\ ignored = {}
    /\ cache = {}
    /\ pc = [c \in Callers |-> "idle"]
    /\ JAVID = [c \in Callers |-> <<"", "">>]
    /\ attempt = [c \in Callers |-> 0]
    /\ JAVinfo = [c \in Callers |-> NoInfo]
    /\ dom = [c \in Callers |-> NoDom]
    /\ metadataId = [c \in Callers |-> 0]
    /\ trx = [c \in Callers |-> NoTrx]
    /\ promises = [c \in Callers |-> <<>>]
    /\ outcome = [c \in Callers |-> Pending]
    /\ read = NoRead
    /\ list = NoList
    /\ ncalls = 0 /\ nerrs = 0 /\ nreads = 0

(* ------------------------------------------------------- getMetadataId *)

\* A caller may call again once the executor of its previous call has ended.
Free(c) == pc[c] \in {"idle", "done", "ended"}

\* Start of a call: local state of the new call.
Enter(c, k) ==
    /\ JAVID' = [JAVID EXCEPT ![c] = k]
    /\ attempt' = [attempt EXCEPT ![c] = 0]
    /\ JAVinfo' = [JAVinfo EXCEPT ![c] = NoInfo]
    /\ dom' = [dom EXCEPT ![c] = NoDom]
    /\ metadataId' = [metadataId EXCEPT ![c] = 0]
    /\ promises' = [promises EXCEPT ![c] = <<>>]
    /\ ncalls' = ncalls + 1

\* Lines 116-118: the base row of the key exists: resolve with its id.
GetMetadataId_Found(c, k) ==
    /\ Free(c) /\ ncalls < MaxCalls
    /\ \E r \in metadatas :
        /\ r.key = k
        /\ outcome' = [outcome EXCEPT ![c] = Resolved(r.id)]
    /\ Enter(c, k)
    /\ pc' = [pc EXCEPT ![c] = "done"]
    /\ UNCHANGED <<store, ignored, cache, trx, read, list, nerrs, nreads>>

\* Lines 120-121 without the lookup of lines 116-118 before them.
GetMetadataId_Begin_NoLookup(c, k) ==
    /\ Free(c) /\ ncalls < MaxCalls
    /\ Enter(c, k)
    /\ outcome' = [outcome EXCEPT ![c] = Pending]
    /\ pc' = [pc EXCEPT ![c] = "fetch"]
    /\ UNCHANGED <<store, ignored, cache, trx, read, list, nerrs, nreads>>

\* Lines 116-121: no base row: open a transaction and start fetchNew.
GetMetadataId_Begin(c, k) ==
    /\ Free(c) /\ ncalls < MaxCalls
    /\ ~\E r \in metadatas : r.key = k
    /\ Enter(c, k)
    /\ outcome' = [outcome EXCEPT ![c] = Pending]
    /\ pc' = [pc EXCEPT ![c] = "fetch"]
    /\ UNCHANGED <<store, ignored, cache, trx, read, list, nerrs, nreads>>

\* Lines 162-164 reached from inside db.transaction: the handler's promise
\* rejects, the transaction is rolled back, the error is logged, and the
\* promise returned to the caller is never settled.
Abort(c) ==
    /\ trx' = [trx EXCEPT ![c] = NoTrx]
    /\ pc' = [pc EXCEPT ![c] = "ended"]
    /\ UNCHANGED <<outcome, ignored>>

\* Lines 177-200 with one retry more than `retries` allows.
FetchNew_Retry_OneMore(c) ==
    /\ pc[c] = "fetch"
    /\ attempt[c] <= retries
    /\ attempt' = [attempt EXCEPT ![c] = @ + 1]
    /\ UNCHANGED <<store, ignored, cache, pc, JAVID, JAVinfo, dom, metadataId, trx,
                   promises, outcome, read, list, counts>>

\* Lines 177-200: an attempt fails and retries are left: pause, try again.
FetchNew_Retry(c) ==
    /\ pc[c] = "fetch"
    /\ attempt[c] < retries
    /\ attempt' = [attempt EXCEPT ![c] = @ + 1]
    /\ UNCHANGED <<store, ignored, cache, pc, JAVID, JAVinfo, dom, metadataId, trx,
                   promises, outcome, read, list, counts>>

\* Lines 177-200 with the exhausted retries taken for an empty result: the
\* key is put on the ignore list and the caller gets 0.
FetchNew_Exhausted_AsEmpty(c) ==
    /\ pc[c] = "fetch"
    /\ attempt[c] = retries
    /\ attempt' = [attempt EXCEPT ![c] = @ + 1]
    /\ ignored' = ignored \cup {JAVID[c]}
    /\ outcome' = [outcome EXCEPT ![c] = Resolved(0)]
    /\ pc' = [pc EXCEPT ![c] = "commit"]
    /\ UNCHANGED <<store, cache, JAVID, JAVinfo, dom, metadataId, trx, promises, read, list,
                   counts>>

\* Lines 177-200: the attempt after the last retry fails: pRetry rejects.
FetchNew_Exhausted(c) ==
    /\ pc[c] = "fetch"
    /\ attempt[c] = retries
    /\ attempt' = [attempt EXCEPT ![c] = @ + 1]
    /\ Abort(c)
    /\ UNCHANGED <<store, cache, JAVID, JAVinfo, dom, metadataId, promises, read, list, counts>>

\* Lines 177-273 with a document without info block counted as a failed
\* attempt: the call keeps fetching.
FetchNew_Ok_RetryNotFound(c, doc) ==
    /\ pc[c] = "fetch"
    /\ Extract(doc).kind # "TypeError"
    /\ JAVinfo' = [JAVinfo EXCEPT ![c] = Extract(doc)]
    /\ dom' = [dom EXCEPT ![c] = doc]
    /\ attempt' = [attempt EXCEPT ![c] = 0]
    /\ pc' = [pc EXCEPT ![c] = IF Extract(doc).kind = "undefined"
                                  THEN "fetch" ELSE "fetched"]
    /\ UNCHANGED <<store, ignored, cache, JAVID, metadataId, trx, promises,
                   outcome, read, list, counts>>

\* Lines 177-273: an attempt succeeds and extraction returns (data or
\* undefined).  The attempt counter is local to pRetry.
FetchNew_Ok(c, doc) ==
    /\ pc[c] = "fetch"
    /\ Extract(doc).kind # "TypeError"
    /\ JAVinfo' = [JAVinfo EXCEPT ![c] = Extract(doc)]
    /\ dom' = [dom EXCEPT ![c] = doc]
    /\ attempt' = [attempt EXCEPT ![c] = 0]
    /\ pc' = [pc EXCEPT ![c] = "fetched"]
    /\ UNCHANGED <<store, ignored, cache, JAVID, metadataId, trx, promises,
                   outcome, read, list, counts>>

\* Lines 243-259: extraction throws; the exception leaves the transaction.
FetchNew_TypeError(c, doc) ==
    /\ pc[c] = "fetch"
    /\ Extract(doc).kind = "TypeError"
    /\ dom' = [dom EXCEPT ![c] = doc]
    /\ attempt' = [attempt EXCEPT ![c] = 0]
    /\ Abort(c)
    /\ UNCHANGED <<store, cache, JAVID, JAVinfo, metadataId, promises, read, list, counts>>

\* Lines 124-129: invalid info: add the key to the ignore list, resolve(0).
GetMetadataId_Ignore(c) ==
    /\ pc[c] = "fetched"
    /\ Invalid(JAVinfo[c])
    /\ ignored' = ignored \cup {JAVID[c]}
    /\ outcome' = [outcome EXCEPT ![c] = Resolved(0)]
    /\ pc' = [pc EXCEPT ![c] = "commit"]
    /\ UNCHANGED <<store, cache, JAVID, attempt, JAVinfo, dom, metadataId, trx,
                   promises, read, list, counts>>

\* One attachMeta call: its arguments, where it stands, and its locals.
Promise(type, name, photoURL) ==
    [type |-> type, name |-> name, photoURL |-> photoURL,
     pc |-> "getMetaId", id |-> 0, count |-> 0]

\* Lines 141-153: the attachMeta calls, in the order they are pushed.
Launch(data) ==
    (IF data.series # "" THEN <<Promise("series", data.series, "")>> ELSE <<>>)
    \o [i \in 1..Len(data.stars) |->
            Promise("star", data.stars[i].name, data.stars[i].img)]
    \o [i \in 1..Len(data.tags) |-> Promise("tag", data.tags[i], "")]

\* Lines 131-155: insert the base row in the transaction and launch the
\* attachMeta calls.
GetMetadataId_Insert(c) ==
    /\ pc[c] = "fetched"
    /\ ~Invalid(JAVinfo[c])
    /\ LET id == nextId["metadatas"] IN
        /\ nextId' = [nextId EXCEPT !["metadatas"] = @ + 1]
        /\ trx' = [trx EXCEPT ![c].metadatas = @ \cup {[id |-> id, key |-> JAVID[c]]}]
        /\ metadataId' = [metadataId EXCEPT ![c] = id]
    /\ promises' = [promises EXCEPT ![c] = Launch(JAVinfo[c].data)]
    /\ pc' = [pc EXCEPT ![c] = "attach"]
    /\ UNCHANGED <<metadatas, metas, mappings, ignored, cache, JAVID, attempt,
                   JAVinfo, dom, outcome, read, list, counts>>

\* Lines 131-138: the insert of the base row is rejected by the store.
GetMetadataId_InsertError(c) ==
    /\ pc[c] = "fetched"
    /\ ~Invalid(JAVinfo[c])
    /\ nerrs < MaxStoreErrors
    /\ nerrs' = nerrs + 1
    /\ Abort(c)
    /\ UNCHANGED <<store, cache, JAVID, attempt, JAVinfo, dom, metadataId, promises,
                   read, list, ncalls, nreads>>

(* ------------------------------------------------ attachMeta, getMetaId *)

\* The attachMeta call i of caller c is at step `at`.
At(c, i, at) ==
    /\ pc[c] = "attach"
    /\ i \in 1..Len(promises[c])
    /\ promises[c][i].pc = at

Table(c, i) == getTypeMapping(promises[c][i].type).type

\* Lines 322-325: a row with the name is found (.first() of the committed
\* rows with that name): getMetaId returns its id, attachMeta goes on to count.
GetMetaId_Found(c, i) ==
    /\ At(c, i, "getMetaId")
    /\ \E r \in metas[Table(c, i)] :
        /\ r.name = promises[c][i].name
        /\ promises' = [promises EXCEPT ![c][i].id = r.id, ![c][i].pc = "count"]
    /\ UNCHANGED <<store, ignored, cache, pc, JAVID, attempt, JAVinfo, dom, metadataId,
                   trx, outcome, read, list, counts>>

\* Lines 322-334: no row with the name is found: build the row to insert.
GetMetaId_NotFound(c, i) ==
    /\ At(c, i, "getMetaId")
    /\ ~\E r \in metas[Table(c, i)] : r.name = promises[c][i].name
    /\ promises' = [promises EXCEPT ![c][i].pc = "insert"]
    /\ UNCHANGED <<store, ignored, cache, pc, JAVID, attempt, JAVinfo, dom, metadataId,
                   trx, outcome, read, list, counts>>

\* Lines 329-340: insert the entity row in the caller's transaction.
GetMetaId_Insert(c, i) ==
    /\ At(c, i, "insert")
    /\ LET t == Table(c, i)
           p == promises[c][i]
           row == [id |-> nextId[t], name |-> p.name,
                   photoURL |-> IF p.photoURL # ""
                                   THEN Proxify([pre |-> 0, path |-> p.photoURL])
                                   ELSE NoPhoto]
       IN /\ nextId' = [nextId EXCEPT ![t] = @ + 1]
          /\ trx' = [trx EXCEPT ![c].metas[t] = @ \cup {row}]
          /\ promises' = [promises EXCEPT ![c][i].id = row.id, ![c][i].pc = "count"]
    /\ UNCHANGED <<metadatas, metas, mappings, ignored, cache, pc, JAVID, attempt,
                   JAVinfo, dom, metadataId, outcome, read, list, counts>>

\* Lines 342-345 and 444-447: an error is rethrown inside the async executor
\* of attachMeta: the promise attachMeta returned is never settled.
Rethrow(c, i) ==
    /\ promises' = [promises EXCEPT ![c][i].pc = "failed"]
    /\ nerrs < MaxStoreErrors
    /\ nerrs' = nerrs + 1
    /\ UNCHANGED <<store, ignored, cache, pc, JAVID, attempt, JAVinfo, dom, metadataId,
                   trx, outcome, read, list, ncalls, nreads>>

\* Line 336: the insert of the entity row is rejected by the store.
GetMetaId_InsertError(c, i) ==
    /\ At(c, i, "insert")
    /\ Rethrow(c, i)

\* Line 426: count the committed mapping rows of (entity id, metadataId).
AttachMeta_Count(c, i) ==
    /\ At(c, i, "count")
    /\ LET n == Cardinality({m \in mappings[Table(c, i)] :
                    m.metaId = promises[c][i].id /\ m.metadataId = metadataId[c]})
       IN promises' = [promises EXCEPT ![c][i].count = n, ![c][i].pc = "mapping"]
    /\ UNCHANGED <<store, ignored, cache, pc, JAVID, attempt, JAVinfo, dom, metadataId,
                   trx, outcome, read, list, counts>>

\* Lines 427-438: the count was 0: insert the mapping row in a transaction of
\* its own, which commits when its handler returns; resolve(1).
AttachMeta_Insert(c, i) ==
    /\ At(c, i, "mapping")
    /\ promises[c][i].count = 0
    /\ LET t == Table(c, i)
           m == t \o "_mapping"
           row == [id |-> nextId[m], metadataId |-> metadataId[c],
                   metaId |-> promises[c][i].id]
       IN /\ nextId' = [nextId EXCEPT ![m] = @ + 1]
          /\ mappings' = [mappings EXCEPT ![t] = @ \cup {row}]
    /\ promises' = [promises EXCEPT ![c][i].pc = "resolved"]
    /\ UNCHANGED <<metadatas, metas, ignored, cache, pc, JAVID, attempt, JAVinfo, dom,
                   metadataId, trx, outcome, read, list, counts>>

\* Lines 439-442: the count was not 0: resolve(1) without inserting.
AttachMeta_Exist(c, i) ==
    /\ At(c, i, "mapping")
    /\ promises[c][i].count # 0
    /\ promises' = [promises EXCEPT ![c][i].pc = "resolved"]
    /\ UNCHANGED <<store, ignored, cache, pc, JAVID, attempt, JAVinfo, dom, metadataId,
                   trx, outcome, read, list, counts>>

\* Line 437: the insert of the mapping row is rejected by the store.
AttachMeta_InsertError(c, i) ==
    /\ At(c, i, "mapping")
    /\ promises[c][i].count = 0
    /\ Rethrow(c, i)

\* Lines 155-159: Promise.all is fulfilled: resolve(metadataId).
GetMetadataId_Resolve(c) ==
    /\ pc[c] = "attach"
    /\ \A i \in 1..Len(promises[c]) : promises[c][i].pc = "resolved"
    /\ outcome' = [outcome EXCEPT ![c] = Resolved(metadataId[c])]
    /\ pc' = [pc EXCEPT ![c] = "commit"]
    /\ UNCHANGED <<store, ignored, cache, JAVID, attempt, JAVinfo, dom, metadataId, trx,
                   promises, read, list, counts>>

\* Line 160: the handler's promise is fulfilled: the transaction commits.
Transaction_Commit(c) ==
    /\ pc[c] = "commit"
    /\ metadatas' = metadatas \cup trx[c].metadatas
    /\ metas' = [t \in MetaTypes |-> metas[t] \cup trx[c].metas[t]]
    /\ trx' = [trx EXCEPT ![c] = NoTrx]
    /\ pc' = [pc EXCEPT ![c] = "done"]
    /\ UNCHANGED <<mappings, nextId, ignored, cache, JAVID, attempt, JAVinfo, dom,
                   metadataId, promises, outcome, read, list, counts>>

(* ------------------------------------------------------------ read path *)

\* What getMetaInfoByMetaId returns for an id without row.
Null == [id |-> 0, name |-> "", photoURL |-> NoPhoto]

\* The rows of a set in ascending id, as the store returns them.
RECURSIVE ById(_)
ById(rows) ==
    IF rows = {} THEN <<>>
    ELSE LET r == CHOOSE x \in rows : \A y \in rows : x.id <= y.id
         IN <<r>> \o ById(rows \ {r})

\* Lines 394-397: the cached value of (type, id), or on a miss the committed
\* row with that id.
CacheGet(type, id) ==
    IF \E e \in cache : e.type = type /\ e.id = id
        THEN (CHOOSE e \in cache : e.type = type /\ e.id = id).row
    ELSE IF \E r \in metas[type] : r.id = id
        THEN CHOOSE r \in metas[type] : r.id = id
    ELSE Null

\* Lines 393-404: null when nothing was found, else a copy of the row with
\* its photoURL, when it has one, behind the proxy prefix.
getMetaInfoByMetaId(type, id) ==
    LET result == CacheGet(type, id)
    IN IF result = Null THEN Null
       ELSE IF result.photoURL # NoPhoto
           THEN [result EXCEPT !.photoURL = Proxify(@)]
       ELSE result

\* Lines 355-383: the entities of the mapping rows of a metadata id.  The
\* series is looked up by the id of the mapping row (result.id).
getMetaByMetadataId(id) ==
    LET tagRows    == ById({m \in mappings["tags"] : m.metadataId = id})
        starRows   == ById({m \in mappings["stars"] : m.metadataId = id})
        seriesRows == ById({m \in mappings["series"] : m.metadataId = id})
    IN [tags   |-> [i \in 1..Len(tagRows) |->
                        getMetaInfoByMetaId("tags", tagRows[i].metaId)],
        stars  |-> [i \in 1..Len(starRows) |->
                        getMetaInfoByMetaId("stars", starRows[i].metaId)],
        series |-> IF seriesRows # <<>>
                      THEN <<getMetaInfoByMetaId("series", seriesRows[1].id)>>
                      ELSE <<>>]

\* The (type, id) pairs getMetaByMetadataId asks the cache for.
Asked(id) ==
    {<<"tags", m.metaId>> : m \in {x \in mappings["tags"] : x.metadataId = id}}
    \cup {<<"stars", m.metaId>> : m \in {x \in mappings["stars"] : x.metadataId = id}}
    \cup (LET s == ById({m \in mappings["series"] : m.metadataId = id})
          IN IF s # <<>> THEN {<<"series", s[1].id>>} ELSE {})

\* Lines 394-397: the cache after the producer ran for the misses of `asked`:
\* what the producer returned is stored under the key, a row or nothing
\* found (Null), and is never dropped.
CacheFill(asked) ==
    cache \cup {[type |-> k[1], id |-> k[2], row |-> CacheGet(k[1], k[2])] :
                    k \in {x \in asked :
                              ~\E e \in cache : e.type = x[1] /\ e.id = x[2]}}

\* Lines 18-29: caller c reads the record whose id its call resolved with.
GetMetadataById(c) ==
    /\ outcome[c].state = "resolved"
    /\ outcome[c].value # 0
    /\ nreads < MaxReads
    /\ nreads' = nreads + 1
    /\ LET id == outcome[c].value IN
        IF \E r \in metadatas : r.id = id
            THEN /\ read' = [caller |-> c, id |-> id, found |-> TRUE]
                                @@ getMetaByMetadataId(id)
                 /\ cache' = CacheFill(Asked(id))
            ELSE /\ read' = [NoRead EXCEPT !.caller = c, !.id = id]
                 /\ cache' = cache
    /\ UNCHANGED <<store, ignored, pc, JAVID, attempt, JAVinfo, dom, metadataId, trx,
                   promises, outcome, list, ncalls, nerrs>>

\* The arguments a client passes to getMetadataListByMetaId.
MaxMetaId == 2
MaxPage == 2
MaxSize == 2

\* orderBy('id', 'desc'): the rows of a set in descending id.
Desc(rows) ==
    LET asc == ById(rows)
    IN [i \in 1..Len(asc) |-> asc[Len(asc) + 1 - i]]

\* paginate({perPage, currentPage}): page `page` of pages of `size` rows.
Paginate(rows, page, size) ==
    LET from == (page - 1) * size + 1
        to   == IF page * size < Len(rows) THEN page * size ELSE Len(rows)
    IN IF from > Len(rows) THEN <<>> ELSE SubSeq(rows, from, to)

\* Lines 76-102: the records of the mapping rows of entity metaId, one page
\* in descending mapping-row id; an element of data is what getMetadataById
\* returned for the row's metadataId: the record (its id) or null (0).
GetMetadataListByMetaId(type, metaId, page, size) ==
    /\ nreads < MaxReads
    /\ nreads' = nreads + 1
    /\ LET mapping == getTypeMapping(type)
           rows    == {m \in mappings[mapping.type] : m.metaId = metaId}
           result  == Paginate(Desc(rows), page, size)
           found   == {result[i].metadataId : i \in 1..Len(result)}
                         \cap {r.id : r \in metadatas}
       IN /\ list' = [type |-> type, metaId |-> metaId, page |-> page,
                      size |-> size,
                      total |-> Cardinality(rows),
                      data |-> [i \in 1..Len(result) |->
                                  IF result[i].metadataId \in found
                                      THEN result[i].metadataId ELSE 0],
                      metaInfo |-> getMetaInfoByMetaId(mapping.type, metaId)]
          /\ cache' = CacheFill(UNION {Asked(id) : id \in found}
                                  \cup {<<mapping.type, metaId>>})
    /\ UNCHANGED <<store, ignored, pc, JAVID, attempt, JAVinfo, dom, metadataId, trx,
                   promises, outcome, read, ncalls, nerrs>>

(* ------------------------------------------------------- specification *)

\* One caller whose calls follow one another; the attachMeta calls of a
\* call, and the reads, interleave freely with each other and with the call.
Next ==
    \/ \E k \in Keys : GetMetadataId_Found("p", k)
    \/ \E k \in Keys : GetMetadataId_Begin("p", k)
    \/ FetchNew_Retry("p")
    \/ FetchNew_Exhausted("p")
    \/ \E doc \in Docs : FetchNew_Ok("p", doc)
    \/ \E doc \in Docs : FetchNew_TypeError("p", doc)
    \/ GetMetadataId_Ignore("p")
    \/ GetMetadataId_Insert("p")
    \/ GetMetadataId_InsertError("p")
    \/ \E i \in 1..4 : GetMetaId_Found("p", i)
    \/ \E i \in 1..4 : GetMetaId_NotFound("p", i)
    \/ \E i \in 1..4 : GetMetaId_Insert("p", i)
    \/ \E i \in 1..4 : GetMetaId_InsertError("p", i)
    \/ \E i \in 1..4 : AttachMeta_Count("p", i)
    \/ \E i \in 1..4 : AttachMeta_Insert("p", i)
    \/ \E i \in 1..4 : AttachMeta_Exist("p", i)
    \/ \E i \in 1..4 : AttachMeta_InsertError("p", i)
    \/ GetMetadataId_Resolve("p")
    \/ Transaction_Commit("p")
    \/ GetMetadataById("p")

Spec == Init /\ [][Next]_vars

\* Two callers whose getMetadataId calls run at the same time, in any
\* interleaving of their steps.  With RaceDocs a call never attaches the same
\* entity twice, so the branch of lines 439-442 is not part of it.
NextRace ==
    \/ \E c \in Callers, k \in Keys :
            ncalls < MaxRacingCalls /\ GetMetadataId_Found(c, k)
    \/ \E c \in Callers, k \in Keys :
            ncalls < MaxRacingCalls /\ GetMetadataId_Begin(c, k)
    \/ \E c \in Callers : FetchNew_Retry(c)
    \/ \E c \in Callers : FetchNew_Exhausted(c)
    \/ \E c \in Callers, doc \in RaceDocs : FetchNew_Ok(c, doc)
    \/ \E c \in Callers, doc \in RaceDocs : FetchNew_TypeError(c, doc)
    \/ \E c \in Callers : GetMetadataId_Ignore(c)
    \/ \E c \in Callers : GetMetadataId_Insert(c)
    \/ \E c \in Callers, i \in 1..2 : GetMetaId_Found(c, i)
    \/ \E c \in Callers, i \in 1..2 : GetMetaId_NotFound(c, i)
    \/ \E c \in Callers, i \in 1..2 : GetMetaId_Insert(c, i)
    \/ \E c \in Callers, i \in 1..2 : AttachMeta_Count(c, i)
    \/ \E c \in Callers, i \in 1..2 : AttachMeta_Insert(c, i)
    \/ \E c \in Callers : GetMetadataId_Resolve(c)
    \/ \E c \in Callers : Transaction_Commit(c)

SpecRace == Init /\ [][NextRace]_vars

\* The documents answered while lists are read: they create records.
ListDocs == {DocFull, DocNoSeries}

\* One caller creating records while any client asks for lists.
NextList ==
    \/ \E k \in Keys : GetMetadataId_Found("p", k)
    \/ \E k \in Keys : GetMetadataId_Begin("p", k)
    \/ \E doc \in ListDocs : FetchNew_Ok("p", doc)
    \/ GetMetadataId_Insert("p")
    \/ \E i \in 1..3 : GetMetaId_Found("p", i)
    \/ \E i \in 1..3 : GetMetaId_NotFound("p", i)
    \/ \E i \in 1..3 : GetMetaId_Insert("p", i)
    \/ \E i \in 1..3 : AttachMeta_Count("p", i)
    \/ \E i \in 1..3 : AttachMeta_Insert("p", i)
    \/ GetMetadataId_Resolve("p")
    \/ Transaction_Commit("p")
    \/ \E type \in {"tag", "star", "series"}, metaId \in 1..MaxMetaId,
          page \in 1..MaxPage, size \in 1..MaxSize :
            GetMetadataListByMetaId(type, metaId, page, size)

SpecList == Init /\ [][NextList]_vars

\* The attachMeta calls of a call run one after the other: call i takes its
\* steps only when the calls pushed before it are resolved.
InTurn(c, i) == \A j \in 1..(i - 1) : j <= Len(promises[c]) => promises[c][j].pc = "resolved"

NextSequential ==
    \/ \E k \in Keys : GetMetadataId_Found("p", k)
    \/ \E k \in Keys : GetMetadataId_Begin("p", k)
    \/ \E doc \in Docs : FetchNew_Ok("p", doc)
    \/ GetMetadataId_Ignore("p")
    \/ GetMetadataId_Insert("p")
    \/ \E i \in 1..4 : InTurn("p", i) /\ GetMetaId_Found("p", i)
    \/ \E i \in 1..4 : InTurn("p", i) /\ GetMetaId_NotFound("p", i)
    \/ \E i \in 1..4 : InTurn("p", i) /\ GetMetaId_Insert("p", i)
    \/ \E i \in 1..4 : InTurn("p", i) /\ AttachMeta_Count("p", i)
    \/ \E i \in 1..4 : InTurn("p", i) /\ AttachMeta_Insert("p", i)
    \/ \E i \in 1..4 : InTurn("p", i) /\ AttachMeta_Exist("p", i)
    \/ GetMetadataId_Resolve("p")
    \/ Transaction_Commit("p")

SpecSequential == Init /\ [][NextSequential]_vars

(* ---------------------------------------------------------------- claims *)

\* The rows of an entity table a query inside caller c's transaction would
\* see: the committed ones and the ones the transaction wrote.
Written(c, t) == metas[t] \cup trx[c].metas[t]

\* C1: when two getMetadataId calls for the same key have both finished with
\* an id, the store holds exactly one base row with that key and both callers
\* received the id of that row.
C1_OneBaseRowPerKey ==
    \A c, d \in Callers :
        (/\ c # d
         /\ pc[c] = "done" /\ pc[d] = "done"
         /\ JAVID[c] = JAVID[d]
         /\ outcome[c].value # 0 /\ outcome[d].value # 0)
        => /\ Cardinality({r \in metadatas : r.key = JAVID[c]}) = 1
           /\ outcome[c].value = outcome[d].value
           /\ \E r \in metadatas : r.key = JAVID[c] /\ r.id = outcome[c].value

\* C2: two getMetaId calls for the same name of the same kind return the same
\* id, and once their callers have finished exactly one row with that name
\* exists in the table of the kind.
C2_OneEntityPerName ==
    \A c, d \in Callers :
        \A i \in 1..Len(promises[c]), j \in 1..Len(promises[d]) :
            (/\ <<c, i>> # <<d, j>>
             /\ promises[c][i].type = promises[d][j].type
             /\ promises[c][i].name = promises[d][j].name
             /\ promises[c][i].id # 0 /\ promises[d][j].id # 0)
            => /\ promises[c][i].id = promises[d][j].id
               /\ (pc[c] = "done" /\ pc[d] = "done") =>
                     Cardinality({r \in metas[Table(c, i)] :
                                     r.name = promises[c][i].name}) = 1

\* C3: a mapping table never holds more than one row for a pair
\* (metadataId, entity id).
C3_OneMappingPerPair ==
    \A t \in MetaTypes :
        \A m1, m2 \in mappings[t] :
            (m1.metadataId = m2.metadataId /\ m1.metaId = m2.metaId) => m1.id = m2.id

\* C4: after attachMeta was called twice, one call after the other, with the
\* same type, metadataId and name, exactly one entity row with that name
\* exists (also inside the creating transaction) and exactly one mapping row
\* links the metadataId to it.
C4_SequentialAttachIdempotent ==
    \A c \in Callers :
        \A i, j \in 1..Len(promises[c]) :
            (/\ i < j
             /\ pc[c] = "attach"
             /\ promises[c][i].type = promises[c][j].type
             /\ promises[c][i].name = promises[c][j].name
             /\ promises[c][i].pc = "resolved" /\ promises[c][j].pc = "resolved")
            => /\ Cardinality({r \in Written(c, Table(c, i)) :
                                  r.name = promises[c][i].name}) = 1
               /\ Cardinality({m \in mappings[Table(c, i)] :
                                  /\ m.metadataId = metadataId[c]
                                  /\ \E r \in Written(c, Table(c, i)) :
                                        r.name = promises[c][i].name /\ r.id = m.metaId})
                  = 1

\* No attachMeta call of caller c can take a step any more.
AttachesAtRest(c) ==
    \A i \in 1..Len(promises[c]) : promises[c][i].pc \in {"resolved", "failed"}

\* C5: when an attachMeta call launched by getMetadataId has failed and the
\* others have come to rest, the creation is rolled back: the transaction
\* holds nothing, no base row of the key was committed by it, and no mapping
\* row refers to the id of the record being created.
C5_FailedAttachRollsBack ==
    \A c \in Callers :
        (/\ pc[c] = "attach"
         /\ AttachesAtRest(c)
         /\ \E i \in 1..Len(promises[c]) : promises[c][i].pc = "failed")
        => /\ trx[c] = NoTrx
           /\ ~\E r \in metadatas : r.id = metadataId[c]
           /\ \A t \in MetaTypes : ~\E m \in mappings[t] : m.metadataId = metadataId[c]

\* C6: when the attempt after the last retry has failed, the call has ended
\* and the promise its caller holds is rejected.
C6_ExhaustedRetriesReject ==
    \A c \in Callers :
        (pc[c] = "ended" /\ attempt[c] = retries + 1) => outcome[c].state = "rejected"

\* C7: the steps of a call whose fetch attempts all fail (the step that
\* starts fetching and every failed attempt, the last one included) leave the
\* tables and the ignore list as they were and the call's transaction empty.
C7_FailedFetchWritesNothing ==
    [][\A c \in Callers :
          (\/ pc[c] # "fetch" /\ pc'[c] = "fetch"
           \/ pc[c] = "fetch" /\ attempt'[c] > attempt[c])
          => /\ UNCHANGED <<metadatas, metas, mappings, ignored>>
             /\ trx'[c] = NoTrx]_vars

C7_Witness ==
    /\ pc["p"] = "ended"
    /\ attempt["p"] = retries + 1
    /\ JAVID["p"] \notin ignored
    /\ ~\E r \in metadatas : r.key = JAVID["p"]

\* The entities (id and name) the attachMeta calls of caller c resolved for a type.
Attached(c, type) ==
    {[id |-> promises[c][i].id, name |-> promises[c][i].name] :
        i \in {j \in 1..Len(promises[c]) : promises[c][j].type = type}}

\* The entities (id and name) of a list getMetadataById returned.
Returned(infos) ==
    {[id |-> infos[i].id, name |-> infos[i].name] : i \in 1..Len(infos)}

\* C8: a getMetadataById that found the record a getMetadataId call created
\* returns as tags, stars and series exactly the entities that call attached.
C8_RoundTrip ==
    \A c \in Callers :
        (/\ read.caller = c /\ read.found
         /\ pc[c] \in {"commit", "done"}
         /\ metadataId[c] = read.id)
        => /\ Returned(read.tags) = Attached(c, "tag")
           /\ Returned(read.stars) = Attached(c, "star")
           /\ Returned(read.series) = Attached(c, "series")

\* The info was extracted from a document with info block, without genre
\* link and without cast photo.
EmptyInfo(c) ==
    /\ JAVinfo[c].kind = "data"
    /\ JAVinfo[c].data.tags = <<>>
    /\ JAVinfo[c].data.stars = <<>>

\* C9: a call whose extraction gave no tag and no star never writes a row:
\* its transaction stays empty and its steps leave the tables as they were;
\* its step after the extraction puts the key on the ignore list and resolves
\* the caller's promise with 0.
C9_EmptyExtractionIgnored ==
    [][\A c \in Callers :
          (EmptyInfo(c) /\ ncalls' = ncalls)
          => /\ trx'[c] = NoTrx
             /\ pc'[c] # pc[c] => UNCHANGED <<metadatas, metas, mappings, nextId>>
             /\ pc[c] = "fetched" /\ pc'[c] # "fetched"
                   => /\ JAVID[c] \in ignored'
                      /\ outcome'[c] = Resolved(0)]_vars

C9_Witness ==
    /\ EmptyInfo("p")
    /\ pc["p"] = "done"
    /\ JAVID["p"] \in ignored
    /\ outcome["p"] = Resolved(0)
    /\ ~\E r \in metadatas : r.key = JAVID["p"]

\* C10: a document without info block extracts to undefined, and a call that
\* got undefined never fetches again and never writes a row: its transaction
\* stays empty and its steps leave the tables as they were.
C10_NotFoundCreatesNothing ==
    /\ \A doc \in Docs : ~doc.info => Extract(doc).kind = "undefined"
    /\ [][\A c \in Callers :
            (JAVinfo[c].kind = "undefined" /\ ncalls' = ncalls)
            => /\ pc'[c] # "fetch"
               /\ attempt'[c] = attempt[c]
               /\ trx'[c] = NoTrx
               /\ pc'[c] # pc[c] => UNCHANGED <<metadatas, metas, mappings, nextId>>]_vars

C10_Witness ==
    /\ JAVinfo["p"].kind = "undefined"
    /\ pc["p"] = "done"
    /\ outcome["p"] = Resolved(0)
    /\ ~\E r \in metadatas : r.key = JAVID["p"]

\* C11: one fetchNew call makes at most retries + 1 = 6 HTTP attempts: an
\* attempt is made only while fewer than 6 have failed, a new attempt follows
\* only a failed one, a call that got a response never attempts again, and
\* the failure of the sixth attempt ends the call with the error (the
\* transaction it ran in is rolled back).
C11_FetchBounded ==
    /\ [](\A c \in Callers :
            /\ attempt[c] <= retries + 1
            /\ pc[c] = "fetch" => attempt[c] <= retries)
    /\ [][\A c \in Callers :
            /\ attempt'[c] > attempt[c]
               => /\ pc[c] = "fetch"
                  /\ attempt'[c] = attempt[c] + 1
                  /\ JAVinfo'[c] = JAVinfo[c] /\ dom'[c] = dom[c]
                  /\ pc'[c] = IF attempt[c] < retries THEN "fetch" ELSE "ended"
                  /\ attempt[c] = retries => trx'[c] = NoTrx
            /\ (pc[c] = "fetch" /\ pc'[c] = "fetch" /\ ncalls' = ncalls)
               => dom'[c] = dom[c]
            /\ (pc[c] # "fetch" /\ ncalls' = ncalls)
               => /\ pc'[c] # "fetch"
                  /\ attempt'[c] = attempt[c]]_vars

C11_Witness ==
    \E c \in Callers :
        /\ attempt[c] = retries + 1
        /\ pc[c] = "ended"
        /\ dom[c] = NoDom

\* C12: a getMetaInfoByMetaId for an entity that getMetaId created and whose
\* row is committed returns that entity (its id and name), never null, also
\* when the same (type, id) was asked for while the row was only written in
\* the creating transaction: no "not found" is served from the cache.
C12_NoStaleNotFound ==
    [][(nreads' = nreads + 1 /\ list'.metaId # 0)
       => \A r \in metas[getTypeMapping(list'.type).type] :
              r.id = list'.metaId
              => /\ list'.metaInfo.id = r.id
                 /\ list'.metaInfo.name = r.name]_vars

\* C13: the rows of one creation become visible together or not at all: a
\* visible mapping row has its base row and its entity row visible, and a
\* visible base row has every attachMeta call of its creation resolved with
\* its mapping row in place.
C13_CreationAtomic ==
    /\ \A t \in MetaTypes : \A m \in mappings[t] :
            /\ \E r \in metadatas : r.id = m.metadataId
            /\ \E e \in metas[t] : e.id = m.metaId
    /\ \A c \in Callers :
            (metadataId[c] # 0 /\ \E r \in metadatas : r.id = metadataId[c])
            => \A i \in 1..Len(promises[c]) :
                  /\ promises[c][i].pc = "resolved"
                  /\ \E m \in mappings[Table(c, i)] :
                        /\ m.metadataId = metadataId[c]
                        /\ m.metaId = promises[c][i].id

\* The mapping rows of the entity a list was asked for.
Linked(l) == {m \in mappings[getTypeMapping(l.type).type] : m.metaId = l.metaId}

\* C14: getMetadataListByMetaId returns only records that have a mapping row
\* to the entity: every element of data is an existing record linked to it
\* and never null, also while a creation linking to the entity is under way;
\* total is the number of mapping rows of the entity; data follows the
\* mapping rows in descending id.
C14_ListOnlyLinkedRecords ==
    [][(nreads' = nreads + 1 /\ list'.metaId # 0)
       => /\ list'.total = Cardinality(Linked(list'))
          /\ \A i \in 1..Len(list'.data) :
                /\ list'.data[i] # 0
                /\ \E r \in metadatas : r.id = list'.data[i]
                /\ \E m \in Linked(list') : m.metadataId = list'.data[i]
          /\ \A i, j \in 1..Len(list'.data) :
                i < j => \E m, n \in Linked(list') :
                            /\ m.metadataId = list'.data[i]
                            /\ n.metadataId = list'.data[j]
                            /\ m.id > n.id]_vars

\* Caller c, the only one with calls, starts a getMetadataId call in this step.
Calls(c) ==
    /\ Free(c)
    /\ ncalls' = ncalls + 1
    /\ \A d \in Callers \ {c} : pc[d] = "idle"

\* C15: a getMetadataId call for a key whose base row is committed resolves
\* with the id of that row at once, without fetching and without writing:
\* tables, counters of ids, ignore list and the caller's transaction are as
\* before, and the call never enters fetchNew.
C15_ExistingKeyReadOnly ==
    [][\A c \in Callers :
          (Calls(c) /\ \E r \in metadatas : r.key = JAVID'[c])
          => /\ outcome'[c].state = "resolved"
             /\ \E r \in metadatas : r.key = JAVID'[c] /\ r.id = outcome'[c].value
             /\ pc'[c] = "done"
             /\ attempt'[c] = 0 /\ dom'[c] = NoDom /\ JAVinfo'[c] = NoInfo
             /\ trx'[c] = NoTrx
             /\ UNCHANGED <<metadatas, metas, mappings, nextId, ignored>>]_vars

C15_Witness ==
    /\ pc["p"] = "done"
    /\ dom["p"] = NoDom
    /\ outcome["p"].state = "resolved"
    /\ \E r \in metadatas : r.key = JAVID["p"] /\ r.id = outcome["p"].value

\* C16: when the tag list extracted for one getMetadataId call holds a name
\* more than once, then after the call has created and committed its record
\* exactly one row of table tags has that name and exactly one mapping row
\* links the new record to it.
C16_DuplicateTagConverges ==
    \A c \in Callers :
        (pc[c] = "done" /\ metadataId[c] # 0)
        => LET tags == JAVinfo[c].data.tags
           IN \A i, j \in 1..Len(tags) :
                 (i < j /\ tags[i] = tags[j])
                 => /\ Cardinality({r \in metas["tags"] : r.name = tags[i]}) = 1
                    /\ Cardinality({m \in mappings["tags"] :
                            /\ m.metadataId = metadataId[c]
                            /\ \E r \in metas["tags"] :
                                  r.name = tags[i] /\ r.id = m.metaId}) = 1

\* The positions of the cover-marked images of a document.
Covers(doc) ==
    {i \in 1..Len(doc.imgs) :
        /\ Len(doc.imgs[i]) >= 2
        /\ doc.imgs[i][1].mark \in {"cover", "digital/video"}}

\* C17: the title and the cover fetchNew returns are those of the first
\* cover-marked image of the document it parsed: a later cover-marked image
\* does not overwrite them.
C17_FirstCoverWins ==
    \A c \in Callers :
        (JAVinfo[c].kind = "data" /\ Covers(dom[c]) # {})
        => LET first == CHOOSE i \in Covers(dom[c]) :
                            \A j \in Covers(dom[c]) : i <= j
           IN /\ JAVinfo[c].data.title = dom[c].imgs[first][2].val
              /\ JAVinfo[c].data.cover = dom[c].imgs[first][1].val

\* C18: fetchNew does not raise on a parsed document with an info block
\* whose other parts are missing (no movie block, an image without second
\* attribute): it returns the data with the missing fields left empty.
C18_ExtractionNeverThrows ==
    \A c \in Callers :
        (dom[c].info /\ pc[c] # "fetch") => JAVinfo[c].kind = "data"

\* The info was extracted with tags but no star, or with stars but no tag.
OneSided(c) ==
    /\ JAVinfo[c].kind = "data"
    /\ (JAVinfo[c].data.tags = <<>>) # (JAVinfo[c].data.stars = <<>>)

\* C19: getMetadataId writes a base row only for an extraction with at least
\* one tag and at least one star.  A call whose extraction has tags but no
\* star, or stars but no tag, writes no row, puts its key on the ignore list
\* and resolves with 0.
C19_BothTagAndStarRequired ==
    /\ [](\A c \in Callers :
            metadataId[c] # 0
            => /\ JAVinfo[c].data.tags # <<>>
               /\ JAVinfo[c].data.stars # <<>>)
    /\ [][\A c \in Callers :
            (OneSided(c) /\ ncalls' = ncalls)
            => /\ trx'[c] = NoTrx
               /\ metadataId'[c] = 0
               /\ pc'[c] # pc[c] => UNCHANGED <<metadatas, metas, mappings, nextId>>
               /\ pc[c] = "fetched" /\ pc'[c] # "fetched"
                     => /\ JAVID[c] \in ignored'
                        /\ outcome'[c] = Resolved(0)]_vars

C19_Witness ==
    /\ JAVinfo["p"].data.stars # <<>>
    /\ JAVinfo["p"].data.tags = <<>>
    /\ pc["p"] = "done"
    /\ JAVID["p"] \in ignored
    /\ outcome["p"] = Resolved(0)
    /\ ~\E r \in metadatas : r.key = JAVID["p"]

\* The same outcome for an extraction with tags and no star.
TagsOnlyIgnored ==
    /\ JAVinfo["p"].data.tags # <<>>
    /\ JAVinfo["p"].data.stars = <<>>
    /\ pc["p"] = "done"
    /\ JAVID["p"] \in ignored
    /\ outcome["p"] = Resolved(0)

\* C20: every getMetaInfoByMetaId of a star that getMetaId created with photo
\* path p returns the photo path p behind exactly one proxy prefix, on every
\* read: the prefix put on at creation is not put on again when reading.
C20_PrefixOnce ==
    \A n \in 1..Len(read.stars) :
        \A c \in Callers : \A i \in 1..Len(promises[c]) :
            (/\ promises[c][i].type = "star"
             /\ promises[c][i].photoURL # ""
             /\ promises[c][i].id # 0
             /\ promises[c][i].id = read.stars[n].id)
            => read.stars[n].photoURL
                  = [pre |-> 1, path |-> promises[c][i].photoURL]

====
